---- MODULE Spec2Model ----
(***************************************************************************)
(* A model of the bodybuilder query-body composer: the aggregation         *)
(* composer (lib/aggregation-builder.js) and the body composer with its    *)
(* two build dialects (the index module).                                  *)
(*                                                                         *)
(* JavaScript values are tagged records [t |-> tag, v |-> payload]:        *)
(*   "undefined", "null", "num", "str", "bool", "obj" (payload: a function *)
(*   from keys to values), "arr" (payload: a sequence of values) and "ref" *)
(*   (a reference to a live object owned by the builder, by name).         *)
(*                                                                         *)
(* last records the most recent call on the builder: its name, its         *)
(* arguments (a, b) and whether it threw; for aggregation(), b tells       *)
(* whether the resolved name was already in the mapping.                   *)
(***************************************************************************)
EXTENDS Integers, Sequences, FiniteSets, TLC

VARIABLES body, aggregations, queries, filters, docs, calls, last

vars == <<body, aggregations, queries, filters, docs, calls, last>>

(* ------------------------------ bounds -------------------------------- *)

\* Mutator calls (sort, from, size, rawOption, query, filter, aggregation)
\* made on one builder.
MaxCalls == 2

\* build() calls whose returned documents are kept for comparison.
MaxBuilds == 2

(* --------------------------- JavaScript values ------------------------ *)

Undefined == [t |-> "undefined", v |-> 0]
Null == [t |-> "null", v |-> 0]
Num(n) == [t |-> "num", v |-> n]
Str(s) == [t |-> "str", v |-> s]
Bool(b) == [t |-> "bool", v |-> b]
Obj(f) == [t |-> "obj", v |-> f]
Arr(s) == [t |-> "arr", v |-> s]
Ref(name) == [t |-> "ref", v |-> name]
\* A callback, by what it does with the composer handed to it (see Invoke).
Fn(script) == [t |-> "fn", v |-> script]
\* A composer object, by the accumulators its accessors read.
Composer(state) == [t |-> "composer", v |-> state]

\* The object literal {} and the one-key literal {k: v}.
EmptyMap == <<>>
One(k, val) == [x \in {k} |-> val]
EmptyObj == Obj(EmptyMap)

IsObj(x) == x.t = "obj"
IsArr(x) == x.t = "arr"
Has(x, k) == IsObj(x) /\ k \in DOMAIN x.v
\* x[k] as JavaScript reads it: undefined when x has no such key.
Get(x, k) == IF Has(x, k) THEN x.v[k] ELSE Undefined

\* JavaScript truthiness of a value.
Truthy(x) ==
  CASE x.t = "undefined" -> FALSE
    [] x.t = "null" -> FALSE
    [] x.t = "num" -> x.v # 0
    [] x.t = "str" -> x.v # ""
    [] x.t = "bool" -> x.v
    [] OTHER -> TRUE

\* String(x) for the values concatenated into an aggregation name.
JsString(x) ==
  CASE x.t = "undefined" -> "undefined"
    [] x.t = "null" -> "null"
    [] x.t = "str" -> x.v
    [] OTHER -> "[object Object]"

(* ------------------------------ lodash -------------------------------- *)

_isNil(x) == x.t \in {"undefined", "null"}
_isString(x) == x.t = "str"
_isPlainObject(x) == x.t = "obj"
_isArray(x) == x.t = "arr"
_isFunction(x) == x.t = "fn"

_isEmpty(x) ==
  CASE x.t = "obj" -> DOMAIN x.v = {}
    [] x.t = "arr" -> Len(x.v) = 0
    [] x.t = "str" -> x.v = ""
    [] OTHER -> TRUE

\* _.find(args, isString | isPlainObject | isFunction): the first element of
\* the kind the predicate tests for (given by its tag), else undefined.
_find(args, kind) ==
  LET hits == {i \in 1..Len(args) : args[i].t = kind}
  IN IF hits = {} THEN Undefined ELSE args[CHOOSE i \in hits : \A j \in hits : i <= j]

\* _.unset(obj, key): obj without the key.
_unset(x, k) == IF Has(x, k) THEN Obj([j \in DOMAIN x.v \ {k} |-> x.v[j]]) ELSE x

\* Object.assign({}, a, b): the keys of both, b's values winning.
Assign(a, b) ==
  Obj([k \in DOMAIN a.v \cup DOMAIN b.v |-> IF k \in DOMAIN b.v THEN b.v[k] ELSE a.v[k]])

\* _.set(obj, path, value): sets the value at the path of keys, creating an
\* object at every step of the path that holds none.
RECURSIVE _set(_, _, _)
_set(x, path, val) ==
  IF Len(path) = 0 THEN val
  ELSE LET base == IF IsObj(x) THEN x ELSE EmptyObj
           k == Head(path)
       IN Assign(base, Obj(One(k, _set(Get(base, k), Tail(path), val))))

\* _.merge(object, source): recursive merge of source into object; plain
\* objects and arrays of the source are copied, never shared; undefined
\* source values are skipped when the key exists.
RECURSIVE _mergeValue(_, _)
_mergeValue(dst, src) ==
  CASE IsObj(src) ->
         LET base == IF IsObj(dst) THEN dst ELSE EmptyObj
         IN Obj([k \in DOMAIN base.v \cup DOMAIN src.v |->
                  IF k \notin DOMAIN src.v THEN base.v[k]
                  ELSE IF src.v[k] = Undefined /\ k \in DOMAIN base.v THEN base.v[k]
                  ELSE _mergeValue(Get(base, k), src.v[k])])
    [] IsArr(src) ->
         LET base == IF IsArr(dst) THEN dst.v ELSE <<>>
             n == IF Len(base) > Len(src.v) THEN Len(base) ELSE Len(src.v)
         IN Arr([i \in 1..n |->
                  IF i > Len(src.v) THEN base[i]
                  ELSE _mergeValue(IF i <= Len(base) THEN base[i] ELSE Undefined,
                                   src.v[i])])
    [] OTHER -> src

_merge(dst, a, b) == _mergeValue(_mergeValue(dst, a), b)

(* ---------------- collaborators outside the core ---------------------- *)

\* utils.buildClause(field, value, opts) as the aggregation composer calls
\* it (value = null): the field folded into the options mapping, omitted
\* when the field is absent.
buildClause(field, value, opts) ==
  LET mainClause == IF _isNil(field) THEN EmptyObj ELSE Obj(One("field", field))
  IN IF IsObj(opts) THEN Assign(mainClause, opts) ELSE mainClause

\* The boolean-combinator tree the query and filter composers accumulate:
\* a single "must" clause stands alone; further clauses collect under
\* bool.<boolType> lists.
pushClause(tree, boolType, clause) ==
  IF _isEmpty(tree) /\ boolType = "must" THEN clause
  ELSE LET bool == IF Has(tree, "bool") THEN tree.v["bool"]
                   ELSE IF _isEmpty(tree) THEN EmptyObj
                   ELSE Obj(One("must", Arr(<<tree>>)))
           old == IF Has(bool, boolType) THEN bool.v[boolType].v ELSE <<>>
       IN Obj(One("bool", Assign(bool, Obj(One(boolType, Arr(Append(old, clause)))))))

\* filterBuilder(): a filter composer with an empty tree.
filterBuilder == EmptyObj
\* queryBuilder(): a query composer with an empty tree.
queryBuilder == EmptyObj

(* ------------------------ aggregation composer ------------------------ *)

\* aggregationBuilder(): var aggregations = {}.
aggregationBuilder == EmptyMap

\* A nested composer that shares the parent's mapping.
NestedComposerShared(parent) == [aggregations |-> parent, filters |-> filterBuilder]

\* The composer handed to a nested callback:
\* Object.assign({}, aggregationBuilder(), filterBuilder()).
NestedComposer(parent) == [aggregations |-> aggregationBuilder, filters |-> filterBuilder]

\* hasAggregations().
hasAggregations(aggs) == ~_isEmpty(Obj(aggs))

\* Does the value expose hasFilter/getFilter/hasAggregations/getAggregations?
IsComposer(x) == x.t = "composer"

\* A fold that tolerates a callback result without the accessors.
ThrewNever(nested, nestedResult) == FALSE

\* nestedResult.hasFilter() on a value without the accessors throws.
Threw(nested, nestedResult) == _isFunction(nested) /\ ~IsComposer(nestedResult)

RECURSIVE makeAggregation(_, _, _, _)
RECURSIVE RunAdds(_, _)

\* The aggregation() calls a callback makes on the composer it was given.
RunAdds(aggs, adds) ==
  IF Len(adds) = 0 THEN aggs
  ELSE LET c == Head(adds)
       IN RunAdds(makeAggregation(aggs, c.type, c.field, c.args).aggregations, Tail(adds))

\* nested(composer): the callback runs its script on the composer and
\* returns it, or returns nothing.
Invoke(fn, composer) ==
  LET after == [aggregations |-> RunAdds(composer.aggregations, fn.v.adds),
                filters |-> IF fn.v.filt
                            THEN pushClause(composer.filters, "must", fn.v.clause)
                            ELSE composer.filters]
  IN IF fn.v.ret = "builder" THEN Composer(after) ELSE Undefined

\* The name makeAggregation stores the entry under.
AggName(type, field, args) ==
  LET found == _find(args, "str")
  IN IF Truthy(found) THEN found.v ELSE "agg_" \o type \o "_" \o JsString(field)

\* Whether the options object carries metadata the composer extracts.
HasMeta(opts) == Truthy(opts) /\ Truthy(Get(opts, "_meta"))

\* The entry: the type's leaf clause, the metadata and the nested content.
InnerClause(type, field, opts, metadata, nestedClause) ==
  IF _isNil(field)
  THEN Assign(Assign(Obj(One(type, buildClause(field, Null, opts))), metadata),
              nestedClause)
  ELSE Assign(metadata, nestedClause)

\* A store that merges the entry into the one already under the name.
StoreEntryMerged(aggs, aggName, innerClause) ==
  _mergeValue(Obj(aggs), Obj(One(aggName, innerClause))).v

\* Object.assign(aggregations, {[aggName]: innerClause}).
StoreEntry(aggs, aggName, innerClause) == Assign(Obj(aggs), Obj(One(aggName, innerClause))).v

\* makeAggregation(type, field, ...args) on a composer whose mapping is aggs:
\* the mapping afterwards, whether the call threw (the callback's result
\* exposes no accessors), and the caller's options object afterwards.
makeAggregation(aggs, type, field, args) ==
  LET aggName == AggName(type, field, args)
      opts == _find(args, "obj")
      nested == _find(args, "fn")
      nestedResult == IF _isFunction(nested)
                      THEN Invoke(nested, NestedComposer(aggs))
                      ELSE Undefined
      threw == Threw(nested, nestedResult)
      withFilter == IF IsComposer(nestedResult) /\ ~_isEmpty(nestedResult.v.filters)
                    THEN One("filter", nestedResult.v.filters)
                    ELSE EmptyMap
      withAggs == IF IsComposer(nestedResult) /\ hasAggregations(nestedResult.v.aggregations)
                  THEN One("aggs", Obj(nestedResult.v.aggregations))
                  ELSE EmptyMap
      nestedClause == Assign(Obj(withFilter), Obj(withAggs))
      metadata == IF HasMeta(opts) THEN Obj(One("meta", Get(opts, "_meta"))) ELSE EmptyObj
      stripped == IF HasMeta(opts) THEN _unset(opts, "_meta") ELSE opts
      innerClause == InnerClause(type, field, stripped, metadata, nestedClause)
  IN IF threw
     THEN [threw |-> TRUE, aggregations |-> aggs, opts |-> opts]
     ELSE [threw |-> FALSE,
           aggregations |-> StoreEntry(aggs, aggName, innerClause),
           opts |-> stripped]

\* getAggregations(): the live mapping itself, not a copy.
getAggregations == Ref("aggregations")

(* ---------------------------- sort merger ----------------------------- *)

\* Position of the first entry of the list that has the key, 0 when none.
EntryIndex(list, key) ==
  LET hits == {i \in 1..Len(list) : Has(list[i], key)}
  IN IF hits = {} THEN 0 ELSE CHOOSE i \in hits : \A j \in hits : i <= j

\* utils.sortMerge(current, field, value): a geo-distance descriptor is
\* always appended; otherwise the entry already holding the field is
\* updated in place, and a new {field: value} entry is appended when there
\* is none.
sortMerge(current, field, value) ==
  LET idx == EntryIndex(current.v, field)
  IN IF field = "_geo_distance" \/ idx = 0
     THEN Arr(Append(current.v, Obj(One(field, value))))
     ELSE Arr([current.v EXCEPT ![idx] = Assign(@, Obj(One(field, value)))])

\* _.each(sorts, (value, key) => sortMerge(body.sort, key, value)) over the
\* keys of one descriptor object.
RECURSIVE MergeKeys(_, _, _)
MergeKeys(current, sorts, keys) ==
  IF keys = {} THEN current
  ELSE LET k == CHOOSE x \in keys : TRUE
       IN MergeKeys(sortMerge(current, k, sorts.v[k]), sorts, keys \ {k})

\* _.each(field, ...) over the descriptors of a list-valued sort() call.
RECURSIVE MergeList(_, _, _)
MergeList(current, list, direction) ==
  IF Len(list) = 0 THEN current
  ELSE LET sorts == Head(list)
           next == IF _isString(sorts)
                   THEN sortMerge(current, sorts.v, direction)
                   ELSE MergeKeys(current, sorts, DOMAIN sorts.v)
       IN MergeList(next, Tail(list), direction)

(* ---------------------------- body composer --------------------------- *)

\* A default direction of 'desc'.
SortDirectionDesc(dir) == IF dir = Undefined THEN Str("desc") ELSE dir

\* The direction parameter with its default.
SortDirection(dir) == IF dir = Undefined THEN Str("asc") ELSE dir

\* sort(field, direction = 'asc'): the body afterwards.
sort(b, field, dir) ==
  LET direction == SortDirection(dir)
      sort0 == IF Truthy(Get(b, "sort")) THEN Get(b, "sort") ELSE Arr(<<>>)
      sort1 == IF _isArray(field)
               THEN LET wrapped == IF _isPlainObject(sort0) THEN Arr(<<sort0>>) ELSE sort0
                    IN IF _isArray(wrapped)
                       THEN MergeList(wrapped, field.v, direction)
                       ELSE wrapped
               ELSE sortMerge(sort0, field.v, direction)
  IN Assign(b, Obj(One("sort", sort1)))

\* from(quantity): body.from = quantity.
from(b, quantity) == Assign(b, Obj(One("from", quantity)))

\* size(quantity): body.size = quantity.
size(b, quantity) == Assign(b, Obj(One("size", quantity)))

\* rawOption(k, v): body[k] = v.
rawOption(b, k, val) == Assign(b, Obj(One(k, val)))

\* What a reference held by a document points at.
Deref(x) == IF x.t = "ref" THEN Obj(aggregations) ELSE x

\* _.cloneDeep(value): a copy sharing nothing with the value.
RECURSIVE _cloneDeep(_)
_cloneDeep(x) ==
  CASE x.t = "obj" -> Obj([k \in DOMAIN x.v |-> _cloneDeep(x.v[k])])
    [] x.t = "arr" -> Arr([i \in 1..Len(x.v) |-> _cloneDeep(x.v[i])])
    [] x.t = "ref" -> _cloneDeep(Deref(x))
    [] OTHER -> x

\* A build that writes into the body itself instead of a copy.
ClonedBodyShared(b) == [obj |-> b, isBody |-> TRUE]

\* The object the build functions write into: a deep copy of the body,
\* distinct from it.
ClonedBody(b) == [obj |-> _cloneDeep(b), isBody |-> FALSE]

\* The body after the build function has written into its working object.
BodyAfter(b, cloned, written) == IF cloned.isBody THEN written ELSE b

\* The default dialect's key used in the legacy dialect.
V1AggsKeyDefault == "aggs"

\* The key the legacy dialect attaches aggregations under.
V1AggsKey == "aggregations"

\* A reduction that nests every query under bool.must, bool or not.
QueryBodyMustOnly(q) ==
  IF ~_isEmpty(q) THEN _set(EmptyObj, <<"query", "bool", "must">>, q) ELSE EmptyObj

\* The query-shaped partial document of the default dialect when filters
\* are present.
QueryBody(q) ==
  IF ~_isEmpty(Get(q, "bool"))
  THEN _set(EmptyObj, <<"query", "bool">>, Get(q, "bool"))
  ELSE IF ~_isEmpty(q)
  THEN _set(EmptyObj, <<"query", "bool", "must">>, q)
  ELSE EmptyObj

\* _buildV1(body, queries, filters, aggregations): the returned document
\* and the builder's body afterwards.
_buildV1(b, q, f, a) ==
  LET cloned == ClonedBody(b)
      clonedBody == cloned.obj
      withQuery ==
        IF ~_isEmpty(f)
        THEN LET s1 == _set(clonedBody, <<"query", "filtered", "filter">>, f)
             IN IF ~_isEmpty(q)
                THEN _set(s1, <<"query", "filtered", "query">>, q)
                ELSE s1
        ELSE IF ~_isEmpty(q) THEN _set(clonedBody, <<"query">>, q)
        ELSE clonedBody
      withAggs == IF ~_isEmpty(Deref(a))
                  THEN _set(withQuery, <<V1AggsKey>>, a)
                  ELSE withQuery
  IN [doc |-> withAggs, body |-> BodyAfter(b, cloned, withAggs)]

\* _build(body, queries, filters, aggregations): the returned document and
\* the builder's body afterwards.
_build(b, q, f, a) ==
  LET cloned == ClonedBody(b)
      clonedBody == cloned.obj
      withQuery ==
        IF ~_isEmpty(f)
        THEN LET filterBody == _set(EmptyObj, <<"query", "bool", "filter">>, f)
                 queryBody == QueryBody(q)
             IN _merge(clonedBody, filterBody, queryBody)
        ELSE IF ~_isEmpty(q) THEN _set(clonedBody, <<"query">>, q)
        ELSE clonedBody
      withAggs == IF ~_isEmpty(Deref(a))
                  THEN _set(withQuery, <<"aggs">>, a)
                  ELSE withQuery
  IN [doc |-> withAggs, body |-> BodyAfter(b, cloned, withAggs)]

\* build(version).
build(version, b, q, f, a) ==
  IF version = Str("v1") THEN _buildV1(b, q, f, a) ELSE _build(b, q, f, a)

\* A returned document as its holder reads it now: every reference followed.
View(doc) == _cloneDeep(doc)

(* ------------------------------- inputs ------------------------------- *)

Two(k1, v1, k2, v2) == [x \in {k1, k2} |-> IF x = k1 THEN v1 ELSE v2]

Blue == Obj(One("color", Str("blue")))
OptSize == Obj(One("size", Num(5)))
OptMeta == Obj(Two("_meta", Blue, "size", Num(5)))
OptFalsyMeta == Obj(Two("_meta", Num(0), "size", Num(5)))

TermClause == Obj(One("term", Obj(One("user", Str("kimchy")))))
MatchClause == Obj(One("match", Obj(One("message", Str("test")))))

\* Calls a callback makes on the composer it is given.
InnerAgg == [type |-> "max", field |-> Undefined, args |-> <<Str("keywords")>>]

CbAggs == Fn([adds |-> <<InnerAgg>>, filt |-> FALSE, clause |-> TermClause, ret |-> "builder"])
CbFilter == Fn([adds |-> <<>>, filt |-> TRUE, clause |-> TermClause, ret |-> "builder"])
CbBoth == Fn([adds |-> <<InnerAgg>>, filt |-> TRUE, clause |-> TermClause, ret |-> "builder"])
CbIdle == Fn([adds |-> <<>>, filt |-> FALSE, clause |-> TermClause, ret |-> "builder"])
CbNothing == Fn([adds |-> <<InnerAgg>>, filt |-> FALSE, clause |-> TermClause, ret |-> "nothing"])

Call(type, field, args) == [type |-> type, field |-> field, args |-> args]

\* The aggregation(type, field, ...) calls made on the builder: with and
\* without a field, options, metadata, an explicit name and a callback;
\* several resolve to the same name.
AggCalls ==
  { Call("max", Str("title"), <<>>),
    Call("max", Str("title"), <<OptSize>>),
    Call("terms", Str("title"), <<OptMeta, Str("titles")>>),
    Call("terms", Undefined, <<>>),
    Call("terms", Undefined, <<Str("titles"), OptMeta>>),
    Call("terms", Undefined, <<OptFalsyMeta>>),
    Call("terms", Str("title"), <<OptSize, CbAggs>>),
    Call("terms", Undefined, <<CbFilter>>),
    Call("terms", Undefined, <<OptSize, Str("titles"), CbBoth>>),
    Call("max", Undefined, <<CbIdle>>),
    Call("terms", Undefined, <<Str("titles"), CbNothing>>) }

Geo == Obj(One("_geo_distance", Obj(Two("pin", Num(40), "order", Str("asc")))))
\* The sort(field, direction) calls made on the builder.
SortCalls ==
  { <<Str("timestamp"), Str("desc")>>,
    <<Str("timestamp"), Str("asc")>>,
    <<Str("timestamp"), Undefined>>,
    <<Str("content"), Undefined>>,
    <<Arr(<<Obj(One("timestamp", Str("desc"))), Str("content")>>), Undefined>>,
    <<Arr(<<Geo, Obj(One("content", Str("asc")))>>), Str("desc")>> }
Quantities == {Num(10)}
RawKeys == {"min_score"}
RawValues == {Num(1)}
BoolTypes == {"must", "must_not"}
Versions == {Undefined, Str("v1")}

(* ------------------------------- actions ------------------------------ *)

Init ==
  /\ body = EmptyObj
  /\ aggregations = aggregationBuilder
  /\ queries = queryBuilder
  /\ filters = filterBuilder
  /\ docs = <<>>
  /\ calls = 0
  /\ last = [op |-> "new", a |-> Undefined, b |-> Undefined, threw |-> FALSE]

Called(op, a, b, threw) ==
  /\ calls < MaxCalls
  /\ calls' = calls + 1
  /\ last' = [op |-> op, a |-> a, b |-> b, threw |-> threw]

Sort ==
  \E c \in SortCalls :
    /\ Called("sort", c[1], c[2], FALSE)
    /\ body' = sort(body, c[1], c[2])
    /\ UNCHANGED <<aggregations, queries, filters, docs>>

From ==
  \E quantity \in Quantities :
    /\ Called("from", quantity, Undefined, FALSE)
    /\ body' = from(body, quantity)
    /\ UNCHANGED <<aggregations, queries, filters, docs>>

Size ==
  \E quantity \in Quantities :
    /\ Called("size", quantity, Undefined, FALSE)
    /\ body' = size(body, quantity)
    /\ UNCHANGED <<aggregations, queries, filters, docs>>

RawOption ==
  \E k \in RawKeys, val \in RawValues :
    /\ Called("rawOption", Str(k), val, FALSE)
    /\ body' = rawOption(body, k, val)
    /\ UNCHANGED <<aggregations, queries, filters, docs>>

Query ==
  \E boolType \in BoolTypes :
    /\ Called("query", Str(boolType), MatchClause, FALSE)
    /\ queries' = pushClause(queries, boolType, MatchClause)
    /\ UNCHANGED <<body, aggregations, filters, docs>>

Filter ==
  \E boolType \in BoolTypes :
    /\ Called("filter", Str(boolType), TermClause, FALSE)
    /\ filters' = pushClause(filters, boolType, TermClause)
    /\ UNCHANGED <<body, aggregations, queries, docs>>

\* aggregation(type, field, ...args) and its alias agg: makeAggregation on
\* the builder's own mapping; a call that throws leaves the mapping alone.
Aggregation ==
  \E c \in AggCalls :
    LET r == makeAggregation(aggregations, c.type, c.field, c.args)
    IN /\ Called("aggregation", c,
                 Bool(AggName(c.type, c.field, c.args) \in DOMAIN aggregations), r.threw)
       /\ aggregations' = r.aggregations
       /\ UNCHANGED <<body, queries, filters, docs>>

\* build(version): the document is handed to the caller, who keeps it.
Build ==
  \E version \in Versions :
    LET r == build(version, body, queries, filters, getAggregations)
    IN /\ Len(docs) < MaxBuilds
       /\ body' = r.body
       /\ docs' = Append(docs, [out |-> r.doc, snap |-> View(r.doc),
                                version |-> version, at |-> calls])
       /\ last' = [op |-> "build", a |-> version, b |-> Undefined, threw |-> FALSE]
       /\ UNCHANGED <<aggregations, queries, filters, calls>>

Next ==
  \/ Sort
  \/ From
  \/ Size
  \/ RawOption
  \/ Query
  \/ Filter
  \/ Aggregation
  \/ Build

Spec == Init /\ [][Next]_vars

(* ------------------------------- claims ------------------------------- *)

LastDoc == docs[Len(docs)]
Built == last.op = "build"
AggregationDone == last.op = "aggregation" /\ ~last.threw
\* The entry the last aggregation() call stored, and its plain options.
LastEntry == aggregations[AggName(last.a.type, last.a.field, last.a.args)]
LastOpts == _find(last.a.args, "obj")
LastNested == _find(last.a.args, "fn")

\* C1, first half: a build() step changes none of the builder's state (the
\* body with its sort/from/size/raw keys, the aggregation mapping, the
\* query tree, the filter tree).
C1_BuildFrame ==
  Len(docs') > Len(docs) => UNCHANGED <<body, aggregations, queries, filters>>

\* C1, second half: two build() calls with the same dialect and no mutator
\* call in between return structurally equal documents.
C1_Repeatable ==
  \A i, j \in 1..Len(docs) :
    (docs[i].version = docs[j].version /\ docs[i].at = docs[j].at)
      => docs[i].snap = docs[j].snap

\* C1: build() is side-effect-free and repeatable, in either dialect and in
\* every reachable builder state.
C1_BuildPure == [][C1_BuildFrame]_vars /\ []C1_Repeatable

\* C1's case: a builder holding body keys, a query, and aggregations was
\* built twice in a row in the same dialect.
C1_Witness ==
  /\ Len(docs) >= 2
  /\ docs[1].version = docs[2].version
  /\ docs[1].at = docs[2].at
  /\ body # EmptyObj
  /\ aggregations # EmptyMap
  /\ Has(docs[2].snap, "sort")

\* C2: a returned document shares nothing with the builder: whatever the
\* builder is asked to do later, the document stays as it was returned.
C2_DocsIndependent ==
  \A i \in 1..Len(docs) : View(docs[i].out) = docs[i].snap

\* The name an aggregation() call resolves to, as documented: the first
\* string among the variadic arguments, otherwise agg_<type>_<field>.
DocumentedName(c) ==
  LET strs == {i \in 1..Len(c.args) : c.args[i].t = "str"}
  IN IF strs = {}
     THEN "agg_" \o c.type \o "_" \o (IF c.field.t = "str" THEN c.field.v ELSE "undefined")
     ELSE c.args[CHOOSE i \in strs : \A j \in strs : i <= j].v

\* The entry a call produces on a composer that holds nothing yet.
FreshEntry(c) ==
  makeAggregation(EmptyMap, c.type, c.field, c.args).aggregations[DocumentedName(c)]

\* C3, the mapping: an aggregation() call leaves exactly one entry under the
\* name it resolves to, which is the entry of that call alone (the earlier
\* entry under the name is replaced, not merged), and keeps every other
\* entry.
C3_LastWriteWins ==
  (last'.op = "aggregation" /\ calls' = calls + 1 /\ ~last'.threw) =>
    LET c == last'.a
        n == DocumentedName(c)
    IN /\ DOMAIN aggregations' = DOMAIN aggregations \cup {n}
       /\ aggregations'[n] = FreshEntry(c)
       /\ \A m \in DOMAIN aggregations \ {n} : aggregations'[m] = aggregations[m]

\* C3, the document: build() attaches the mapping as it is under aggs
\* (default dialect) or aggregations (v1).
C3_Attached ==
  (Built /\ aggregations # EmptyMap) =>
    LET key == IF LastDoc.version = Str("v1") THEN "aggregations" ELSE "aggs"
    IN Has(LastDoc.snap, key) /\ LastDoc.snap.v[key] = Obj(aggregations)

Present(tree) == tree # EmptyObj

\* C4: the default dialect's reduction of the query tree Q and the filter
\* tree F: F with a Q that has a bool puts filter beside Q.bool's keys; F
\* with a plain Q gives bool.filter and bool.must; F alone gives
\* bool.filter; Q alone is the query; neither emits no query; aggs appears
\* exactly when there are aggregations.
C4_DefaultDialect ==
  (Built /\ LastDoc.version = Undefined) =>
    LET d == LastDoc.snap
        Q == queries
        F == filters
    IN /\ (Present(F) /\ Has(Q, "bool") /\ Get(Q, "bool") # EmptyObj) =>
            /\ Has(Get(d, "query"), "bool")
            /\ Get(Get(Get(d, "query"), "bool"), "filter") = F
            /\ \A k \in DOMAIN Q.v["bool"].v :
                 Get(Get(Get(d, "query"), "bool"), k) = Q.v["bool"].v[k]
       /\ (Present(F) /\ Present(Q) /\ ~Has(Q, "bool")) =>
            Get(d, "query") = Obj(One("bool", Obj(Two("filter", F, "must", Q))))
       /\ (Present(F) /\ ~Present(Q)) =>
            Get(d, "query") = Obj(One("bool", Obj(One("filter", F))))
       /\ (~Present(F) /\ Present(Q)) => Get(d, "query") = Q
       /\ (~Present(F) /\ ~Present(Q)) => ~Has(d, "query")
       /\ Has(d, "aggs") <=> aggregations # EmptyMap

\* C4's case: a default-dialect build of a builder with a filter and a
\* query tree that already has a bool.
C4_Witness ==
  /\ Built
  /\ LastDoc.version = Undefined
  /\ Present(filters)
  /\ Has(queries, "bool")

\* C5: the legacy dialect's reduction: F gives filtered.filter, with
\* filtered.query exactly when Q is present; Q alone is the query; neither
\* emits no query; aggregations go under aggregations, never under aggs,
\* and nothing is emitted for an absent sub-tree.
C5_LegacyDialect ==
  (Built /\ LastDoc.version = Str("v1")) =>
    LET d == LastDoc.snap
        Q == queries
        F == filters
    IN /\ (Present(F) /\ Present(Q)) =>
            Get(d, "query") = Obj(One("filtered", Obj(Two("filter", F, "query", Q))))
       /\ (Present(F) /\ ~Present(Q)) =>
            Get(d, "query") = Obj(One("filtered", Obj(One("filter", F))))
       /\ (~Present(F) /\ Present(Q)) => Get(d, "query") = Q
       /\ (~Present(F) /\ ~Present(Q)) => ~Has(d, "query")
       /\ aggregations # EmptyMap => Get(d, "aggregations") = Obj(aggregations)
       /\ aggregations = EmptyMap => ~Has(d, "aggregations")
       /\ ~Has(d, "aggs")

\* C5's case: a v1 build of a builder holding both a query and a filter.
C5_Witness ==
  /\ Built
  /\ LastDoc.version = Str("v1")
  /\ Present(filters)
  /\ Present(queries)

\* C6: whenever the options of an aggregation() call carry the key _meta,
\* whatever its value, the stored entry has meta with that value, and _meta
\* is neither in the entry nor in the options of its leaf clause.
C6_MetaAlwaysExtracted ==
  (AggregationDone /\ Has(LastOpts, "_meta")) =>
    /\ Get(LastEntry, "meta") = LastOpts.v["_meta"]
    /\ ~Has(LastEntry, "_meta")
    /\ ~Has(Get(LastEntry, last.a.type), "_meta")

\* The options a caller passed, without the reserved metadata key.
PlainOptions(opts) ==
  IF IsObj(opts) THEN Obj([k \in DOMAIN opts.v \ {"_meta"} |-> opts.v[k]]) ELSE EmptyObj

\* C7: every aggregation() call, with or without a field, stores an entry
\* whose key <type> holds the leaf clause: the field (when given) and the
\* caller's options without _meta.
C7_EntryHasTypeClause ==
  AggregationDone =>
    /\ Has(LastEntry, last.a.type)
    /\ Get(LastEntry, last.a.type) =
         Assign(IF last.a.field.t = "str" THEN Obj(One("field", last.a.field)) ELSE EmptyObj,
                PlainOptions(LastOpts))

\* What a callback's script adds to a composer that holds nothing.
ScriptAggs(fn) == RunAdds(EmptyMap, fn.v.adds)
ScriptFilter(fn) == IF fn.v.filt THEN pushClause(EmptyObj, "must", fn.v.clause) ELSE EmptyObj

\* C8: an aggregation() call with a callback folds what the callback added
\* to its own fresh composer into the new entry only: filter exactly when
\* the callback added a filter, aggs exactly when it added aggregations;
\* the parent's mapping gains at most the entry's own name, its other
\* entries and its filter tree stay as they were.
C8_NestedFold ==
  (last'.op = "aggregation" /\ calls' = calls + 1 /\ ~last'.threw
     /\ _isFunction(_find(last'.a.args, "fn"))) =>
    LET c == last'.a
        fn == _find(c.args, "fn")
        n == DocumentedName(c)
        entry == aggregations'[n]
    IN /\ Has(entry, "filter") <=> fn.v.filt
       /\ fn.v.filt => entry.v["filter"] = ScriptFilter(fn)
       /\ Has(entry, "aggs") <=> fn.v.adds # <<>>
       /\ fn.v.adds # <<>> => entry.v["aggs"] = Obj(ScriptAggs(fn))
       /\ DOMAIN aggregations' = DOMAIN aggregations \cup {n}
       /\ \A m \in DOMAIN aggregations \ {n} : aggregations'[m] = aggregations[m]
       /\ filters' = filters

\* C8: every step of every behaviour folds a callback's additions into the
\* new entry alone and leaves the rest of the parent as it was.
C8_NestedIsolated == [][C8_NestedFold]_vars

\* C8's case: beside an earlier entry, a call whose callback added both a
\* filter and a sub-aggregation has stored its entry.
C8_Witness ==
  /\ AggregationDone
  /\ LastNested = CbBoth
  /\ Has(LastEntry, "filter")
  /\ Has(LastEntry, "aggs")
  /\ Cardinality(DOMAIN aggregations) >= 2

\* C10: an aggregation() call whose callback returns a value without the
\* accessors fails with an error and leaves the mapping exactly as it was.
C10_BadCallback ==
  (last'.op = "aggregation" /\ calls' = calls + 1
     /\ _isFunction(_find(last'.a.args, "fn"))
     /\ _find(last'.a.args, "fn").v.ret # "builder") =>
    /\ last'.threw
    /\ aggregations' = aggregations

\* C10: every aggregation() step whose callback returns no composer throws
\* and changes nothing in the mapping.
C10_BadCallbackThrows == [][C10_BadCallback]_vars

\* C10's case: the failing call resolved to a name the mapping already
\* held, and the entry is still the one stored before.
C10_Witness ==
  /\ last.op = "aggregation"
  /\ last.threw
  /\ last.b = Bool(TRUE)
  /\ LastNested = CbNothing

\* The documented rule for one field: the entry already naming the field
\* gets the direction, where it stands; a field not yet named is appended.
Upsert(list, f, d) ==
  LET named == {i \in 1..Len(list) : Has(list[i], f)}
  IN IF named = {}
     THEN Append(list, Obj(One(f, d)))
     ELSE [i \in 1..Len(list) |-> IF i \in named THEN Obj(One(f, d)) ELSE list[i]]

\* The documented rule for the descriptors of a list-valued call, in order:
\* a string takes the call's direction, a {field: direction} descriptor its
\* own, and a geo-distance descriptor is appended as it is.
RECURSIVE UpsertAll(_, _, _)
UpsertAll(list, descriptors, d) ==
  IF descriptors = <<>> THEN list
  ELSE LET x == Head(descriptors)
           f == IF x.t = "str" THEN x.v ELSE CHOOSE k \in DOMAIN x.v : TRUE
           next == IF x.t = "str" THEN Upsert(list, f, d)
                   ELSE IF f = "_geo_distance" THEN Append(list, x)
                   ELSE Upsert(list, f, x.v[f])
       IN UpsertAll(next, Tail(descriptors), d)

SortList(b) == IF Has(b, "sort") THEN b.v["sort"].v ELSE <<>>

\* C9, one call: sort(field, direction) applies the documented rule, with
\* the direction 'asc' when none is given, and touches no other body key.
C9_SortCall ==
  (last'.op = "sort" /\ calls' = calls + 1) =>
    LET d == IF last'.b = Undefined THEN Str("asc") ELSE last'.b
        descriptors == IF last'.a.t = "arr" THEN last'.a.v ELSE <<last'.a>>
    IN /\ SortList(body') = UpsertAll(SortList(body), descriptors, d)
       /\ DOMAIN body'.v = DOMAIN body.v \cup {"sort"}
       /\ \A k \in DOMAIN body.v \ {"sort"} : body'.v[k] = body.v[k]

\* C9, the list: at most one entry for each field other than geo-distance.
C9_NoDuplicates ==
  LET list == SortList(body)
  IN \A i, j \in 1..Len(list) :
       (i # j /\ DOMAIN list[i].v \cap DOMAIN list[j].v # {})
         => DOMAIN list[i].v \cap DOMAIN list[j].v = {"_geo_distance"}

\* C9: sort() calls update in place or append, never duplicate a field.
C9_SortMerge == [][C9_SortCall]_vars /\ []C9_NoDuplicates

\* C9's case: sort('timestamp') on a list that names timestamp (desc) before
\* content: the timestamp entry is 'asc', still first, and still the only
\* one.
C9_Witness ==
  /\ last.op = "sort"
  /\ last.a = Str("timestamp")
  /\ SortList(body) = <<Obj(One("timestamp", Str("asc"))), Obj(One("content", Str("asc")))>>

====
